---- MODULE Spec2Model ----
(***************************************************************************)
(* WalkerLocalPlanner (PythonAPI/carla/agents/navigation/                  *)
(* local_planner_walker.py): a bounded queue of target locations that is   *)
(* filled by set_plan and drained by run_step.                             *)
(*                                                                         *)
(* Numbers are fixed point with two decimals: One = 100 stands for 1.0.    *)
(* Lengths are metres and speeds are what the host reports (km/h for       *)
(* get_speed). A location is named by a letter; Coord gives its            *)
(* coordinates <<x, y, z>>, and two locations are equal iff their          *)
(* coordinates are.                                                        *)
(***************************************************************************)
EXTENDS Integers, Sequences, FiniteSets, TLC

VARIABLES
    location_queue,     \* self._location_queue, front first
    queue_maxlen,       \* self._location_queue.maxlen
    target_speed,       \* self._target_speed
    target_location,    \* self.target_location
    config,             \* _dt, the two controller dicts, _base_min_distance, _distance_ratio
    op,                 \* the call that returned last
    control,            \* run_step's return value, when op = "run_step"
    done_ret,           \* done()'s return value, when op = "done"
    walker_location,    \* what get_location() gave the call that returned last
    agent_target_speed, \* WalkerAgent._target_speed
    ctor_opt_dict,      \* history: the opt_dict the planner was constructed with
    speed_given,        \* history: the speed last given, by opt_dict or set_speed
    appended,           \* history: the segments put in the queue since it was last cleared
    removed             \* history: the locations popped since the queue was last cleared

vars == <<location_queue, queue_maxlen, target_speed, target_location, config,
          op, control, done_ret, walker_location, agent_target_speed,
          ctor_opt_dict, speed_given, appended, removed>>

----
\* Fixed point, bounds and inputs

One == 100

DequeMaxLen == 100

\* Plans of up to MaxPlanLen locations, every combination
MaxPlanLen == 1

\* Plans longer than the queue: up to DequeMaxLen + MaxOver locations
MaxOver == 1

\* set_plan is not called when the queue would grow past DequeMaxLen + MaxGrow
MaxGrow == 1

\* Segments (the seed or a clean plan, then appended plans) between two clears
MaxSegments == 3

\* A, B, C are the locations of plans; D, E, F lie between them (D on AC, E on
\* AB, F on BC) and are places the walker passes through
Coord == [A |-> <<0, 0, 0>>, B |-> <<90, 0, 0>>, C |-> <<0, 400, 0>>,
          D |-> <<0, 200, 0>>, E |-> <<40, 0, 0>>, F |-> <<45, 200, 0>>]

Locs == {"A", "B", "C"}

HostLocs == DOMAIN Coord

\* A, B, then C repeated: n locations
LongPlan(n) == [i \in 1..n |-> IF i = 1 THEN "A" ELSE IF i = 2 THEN "B" ELSE "C"]

ShortPlans == UNION {[1..n -> Locs] : n \in 0..MaxPlanLen}

Plans == ShortPlans \cup {LongPlan(DequeMaxLen + d) : d \in 0..MaxOver}

\* get_speed() readings: 0 km/h and 28.8 km/h (8 m/s)
SpeedsKmh == {0, 2880}

\* set_speed() arguments
SetSpeeds == {0}

OptDicts == { [x \in {} |-> 0],
              [base_min_distance |-> 0, distance_ratio |-> 0, target_speed |-> 200,
               verbose |-> 1] }

----
\* Vectors

Sub(a, b) == <<a[1] - b[1], a[2] - b[2], a[3] - b[3]>>

Dot(a, b) == a[1] * b[1] + a[2] * b[2] + a[3] * b[3]

\* a.distance(b) < r, with the square root moved to the other side
DistanceLess(a, b, r) ==
    r > 0 /\ Dot(Sub(Coord[a], Coord[b]), Sub(Coord[a], Coord[b])) < r * r

\* v scaled by 1 / |v|: the vector num / sqrt(den2). A zero v gives 0 * (1 / 0)
\* in every component, which is no vector at all (den2 = 0).
MakeUnitVector(v) == [num |-> v, den2 |-> Dot(v, v)]

\* A freshly constructed WalkerControl: speed 0, direction (1, 0, 0)
WalkerControl == [speed |-> 0, direction |-> [num |-> <<1, 0, 0>>, den2 |-> 1]]

----
\* collections.deque with maxlen

\* Mutant of DequeAppend: nothing is appended
DequeAppend_Drops(q, maxlen, x) == q

DequeAppend(q, maxlen, x) ==
    IF maxlen = 0 THEN q
    ELSE IF Len(q) >= maxlen THEN Append(Tail(q), x)
    ELSE Append(q, x)

\* for elem in elems: q.append(elem). Every append past maxlen drops the front
\* element, one by one: what is left is the last maxlen elements of q \o elems.
AppendAll(q, maxlen, elems) ==
    LET all == q \o elems IN
    IF maxlen = 0 THEN q
    ELSE IF Len(all) <= maxlen THEN all
    ELSE SubSeq(all, Len(all) - maxlen + 1, Len(all))

\* Mutant of PopLeft: pops from the right end
PopLeft_FromRight(q, n) == SubSeq(q, 1, Len(q) - n)

\* Mutant of PopLeft: rotates the popped locations to the back
PopLeft_Rotate(q, n) == SubSeq(q, n + 1, Len(q)) \o SubSeq(q, 1, n) \o SubSeq(q, 1, n)

\* n times q.popleft()
PopLeft(q, n) == SubSeq(q, n + 1, Len(q))

----
\* WalkerLocalPlanner

DefaultConfig ==
    [dt |-> 5,
     args_lateral_dict |-> [K_P |-> 195, K_I |-> 5, K_D |-> 20, dt |-> 5],
     args_longitudinal_dict |-> [K_P |-> 100, K_I |-> 5, K_D |-> 0, dt |-> 5],
     base_min_distance |-> One,
     distance_ratio |-> 50]

DefaultTargetSpeed == One

\* The keys __init__ reads
RecognizedKeys == {"dt", "target_speed", "lateral_control_dict",
                   "longitudinal_control_dict", "base_min_distance", "distance_ratio"}

\* Mutant of Has: an opt_dict with a key __init__ does not know is not read at all
Has_Strict(opt_dict, key) ==
    key \in DOMAIN opt_dict /\ DOMAIN opt_dict \subseteq RecognizedKeys

Has(opt_dict, key) == key \in DOMAIN opt_dict

Construct(location, opt_dict) ==
    [config |->
        [dt |-> IF Has(opt_dict, "dt") THEN opt_dict["dt"] ELSE DefaultConfig.dt,
         args_lateral_dict |->
            IF Has(opt_dict, "lateral_control_dict")
            THEN opt_dict["lateral_control_dict"] ELSE DefaultConfig.args_lateral_dict,
         args_longitudinal_dict |->
            IF Has(opt_dict, "longitudinal_control_dict")
            THEN opt_dict["longitudinal_control_dict"]
            ELSE DefaultConfig.args_longitudinal_dict,
         base_min_distance |->
            IF Has(opt_dict, "base_min_distance")
            THEN opt_dict["base_min_distance"] ELSE DefaultConfig.base_min_distance,
         distance_ratio |->
            IF Has(opt_dict, "distance_ratio")
            THEN opt_dict["distance_ratio"] ELSE DefaultConfig.distance_ratio],
     target_speed |->
        IF Has(opt_dict, "target_speed") THEN opt_dict["target_speed"]
        ELSE DefaultTargetSpeed,
     target_location |-> location,
     queue_maxlen |-> DequeMaxLen,
     location_queue |-> DequeAppend(<<>>, DequeMaxLen, location)]

\* The call returns nothing
NoReturn ==
    /\ control' = WalkerControl
    /\ done_ret' = FALSE

\* The call does not ask the host where the walker is
NoReading == walker_location' = "none"

\* The planner's fields, and what the caller sees, after
\* WalkerLocalPlanner(walker, opt_dict) with the walker at location
Constructed(location, opt_dict) ==
    LET p == Construct(location, opt_dict) IN
    /\ location_queue = p.location_queue
    /\ queue_maxlen = p.queue_maxlen
    /\ target_speed = p.target_speed
    /\ target_location = p.target_location
    /\ config = p.config
    /\ op = "init"
    /\ control = WalkerControl
    /\ done_ret = FALSE
    /\ walker_location = location
    /\ ctor_opt_dict = opt_dict
    /\ speed_given = IF "target_speed" \in DOMAIN opt_dict
                     THEN opt_dict["target_speed"] ELSE One
    /\ appended = <<p.location_queue>>
    /\ removed = <<>>

\* A planner of its own: no agent holds it
Init ==
    \E location \in Locs, opt_dict \in OptDicts :
        /\ Constructed(location, opt_dict)
        /\ agent_target_speed = "none"

\* Mutant of set_speed: the new speed is not stored
set_speed_Ignored(speed) ==
    /\ target_speed' = target_speed
    /\ speed_given' = speed
    /\ op' = "set_speed"
    /\ NoReturn /\ NoReading
    /\ UNCHANGED <<location_queue, queue_maxlen, target_location, config,
                   ctor_opt_dict, appended, removed>>

set_speed(speed) ==
    /\ target_speed' = speed
    /\ speed_given' = speed
    /\ op' = "set_speed"
    /\ NoReturn /\ NoReading
    /\ UNCHANGED <<location_queue, queue_maxlen, target_location, config,
                   ctor_opt_dict, appended, removed>>

\* Mutant of SetPlanQueue: the queue is never remade with a larger maxlen
SetPlanQueue_NoRemake(queue, maxlen, current_plan, clean_queue) ==
    LET cleared == IF clean_queue THEN <<>> ELSE queue
    IN  [location_queue |-> AppendAll(cleared, maxlen, current_plan),
         queue_maxlen |-> maxlen]

\* Mutant of SetPlanQueue: the remade queue does not get the old locations
SetPlanQueue_RemakeDrops(queue, maxlen, current_plan, clean_queue) ==
    LET cleared == IF clean_queue THEN <<>> ELSE queue
        new_plan_length == Len(current_plan) + Len(cleared)
        remake == new_plan_length > maxlen
        new_maxlen == IF remake THEN new_plan_length ELSE maxlen
        new_location_queue == IF remake THEN <<>> ELSE cleared
    IN  [location_queue |-> AppendAll(new_location_queue, new_maxlen, current_plan),
         queue_maxlen |-> new_maxlen]

\* Mutant of SetPlanQueue: the queue is remade on every call
SetPlanQueue_AlwaysRemake(queue, maxlen, current_plan, clean_queue) ==
    LET cleared == IF clean_queue THEN <<>> ELSE queue
        new_plan_length == Len(current_plan) + Len(cleared)
    IN  [location_queue |-> cleared \o current_plan,
         queue_maxlen |-> new_plan_length]

\* Mutant of SetPlanQueue: clean_queue is ignored
SetPlanQueue_NoClear(queue, maxlen, current_plan, clean_queue) ==
    LET new_plan_length == Len(current_plan) + Len(queue)
        remake == new_plan_length > maxlen
        new_maxlen == IF remake THEN new_plan_length ELSE maxlen
    IN  [location_queue |-> AppendAll(queue, new_maxlen, current_plan),
         queue_maxlen |-> new_maxlen]

\* The queue and its maxlen after set_plan(current_plan, clean_queue)
SetPlanQueue(queue, maxlen, current_plan, clean_queue) ==
    LET cleared == IF clean_queue THEN <<>> ELSE queue
        new_plan_length == Len(current_plan) + Len(cleared)
        remake == new_plan_length > maxlen
        new_maxlen == IF remake THEN new_plan_length ELSE maxlen
        new_location_queue ==
            IF remake THEN AppendAll(<<>>, new_maxlen, cleared) ELSE cleared
    IN  [location_queue |-> AppendAll(new_location_queue, new_maxlen, current_plan),
         queue_maxlen |-> new_maxlen]

\* Mutant of set_plan: a non-empty plan also becomes the target
set_plan_Retargets(current_plan, clean_queue) ==
    LET r == SetPlanQueue(location_queue, queue_maxlen, current_plan, clean_queue) IN
    /\ clean_queue \/ Len(appended) < MaxSegments
    /\ Len(current_plan) + (IF clean_queue THEN 0 ELSE Len(location_queue))
          <= DequeMaxLen + MaxGrow
    /\ location_queue' = r.location_queue
    /\ queue_maxlen' = r.queue_maxlen
    /\ target_location' = IF current_plan = <<>> THEN target_location
                          ELSE current_plan[1]
    /\ op' = "set_plan"
    /\ NoReturn /\ NoReading
    /\ appended' = IF clean_queue THEN <<current_plan>> ELSE Append(appended, current_plan)
    /\ removed' = IF clean_queue THEN <<>> ELSE removed
    /\ UNCHANGED <<target_speed, config, ctor_opt_dict, speed_given>>

set_plan(current_plan, clean_queue) ==
    LET r == SetPlanQueue(location_queue, queue_maxlen, current_plan, clean_queue) IN
    /\ clean_queue \/ Len(appended) < MaxSegments
    /\ Len(current_plan) + (IF clean_queue THEN 0 ELSE Len(location_queue))
          <= DequeMaxLen + MaxGrow
    /\ location_queue' = r.location_queue
    /\ queue_maxlen' = r.queue_maxlen
    /\ op' = "set_plan"
    /\ NoReturn /\ NoReading
    /\ appended' = IF clean_queue THEN <<current_plan>> ELSE Append(appended, current_plan)
    /\ removed' = IF clean_queue THEN <<>> ELSE removed
    /\ UNCHANGED <<target_speed, target_location, config, ctor_opt_dict, speed_given>>

\* get_speed(self._walker) / 3.6
WalkerSpeed(kmh) == (kmh * 10) \div 36

\* self._min_distance
MinDistance(cfg, kmh) ==
    cfg.base_min_distance + (cfg.distance_ratio * WalkerSpeed(kmh)) \div One

\* Mutant of RadiusAt: the last location gets the dynamic radius too
RadiusAt_AlwaysDynamic(queue, i, dyn_min_distance) == dyn_min_distance

\* Mutant of RadiusAt: the last location is never close enough
RadiusAt_LastNever(queue, i, dyn_min_distance) ==
    IF Len(queue) - (i - 1) = 1 THEN 0 ELSE dyn_min_distance

\* The radius the loop of run_step uses at queue position i: it gets there with
\* num_location_removed = i - 1
RadiusAt(queue, i, dyn_min_distance) ==
    IF Len(queue) - (i - 1) = 1 THEN One ELSE dyn_min_distance

\* Mutant of NumLocationRemoved: no break, every location within its radius counts
NumLocationRemoved_NoBreak(queue, location, dyn_min_distance) ==
    Cardinality({i \in 1..Len(queue) :
                    DistanceLess(location, queue[i], RadiusAt(queue, i, dyn_min_distance))})

\* Mutant of NumLocationRemoved: the last location of the queue is never counted
NumLocationRemoved_KeepsLast(queue, location, dyn_min_distance) ==
    LET stop == {i \in 1..Len(queue) :
                    \/ i = Len(queue)
                    \/ ~DistanceLess(location, queue[i],
                                     RadiusAt(queue, i, dyn_min_distance))}
    IN  IF stop = {} THEN Len(queue)
        ELSE (CHOOSE i \in stop : \A j \in stop : i <= j) - 1

\* The loop of run_step: it counts up to the first location that is not within
\* its radius, and breaks there
NumLocationRemoved(queue, location, dyn_min_distance) ==
    LET stop == {i \in 1..Len(queue) :
                    ~DistanceLess(location, queue[i], RadiusAt(queue, i, dyn_min_distance))}
    IN  IF stop = {} THEN Len(queue)
        ELSE (CHOOSE i \in stop : \A j \in stop : i <= j) - 1

\* Mutant of Command: the stop command keeps the target speed
Command_StopKeepsSpeed(queue, location, speed) ==
    IF Len(queue) = 0 THEN [WalkerControl EXCEPT !.speed = speed]
    ELSE [speed |-> speed,
          direction |-> MakeUnitVector(Sub(Coord[queue[1]], Coord[location]))]

\* Mutant of Command: the direction points from the target to the actor
Command_Reversed(queue, location, speed) ==
    IF Len(queue) = 0 THEN [WalkerControl EXCEPT !.speed = 0]
    ELSE [speed |-> speed,
          direction |-> MakeUnitVector(Sub(Coord[location], Coord[queue[1]]))]

\* The command of run_step for the queue left after pruning
Command(queue, location, speed) ==
    IF Len(queue) = 0 THEN [WalkerControl EXCEPT !.speed = 0]
    ELSE [speed |-> speed,
          direction |-> MakeUnitVector(Sub(Coord[queue[1]], Coord[location]))]

\* location and kmh are what the host reports during the call: get_location()
\* is read twice (pruning, direction) within one synchronous call and gives the
\* same location both times. self._min_distance is written here and read
\* nowhere else, so it is a local of the step.
run_step(location, kmh) ==
    LET n == NumLocationRemoved(location_queue, location, MinDistance(config, kmh))
        queue == PopLeft(location_queue, n)
    IN  /\ location_queue' = queue
        /\ removed' = removed \o SubSeq(location_queue, 1, n)
        /\ target_location' = IF Len(queue) = 0 THEN target_location ELSE queue[1]
        /\ control' = Command(queue, location, target_speed)
        /\ op' = "run_step"
        /\ done_ret' = FALSE
        /\ walker_location' = location
        /\ UNCHANGED <<queue_maxlen, target_speed, config, ctor_opt_dict, speed_given,
                       appended>>

Done(queue) == Len(queue) = 0

done ==
    /\ done_ret' = Done(location_queue)
    /\ op' = "done"
    /\ control' = WalkerControl
    /\ NoReading
    /\ UNCHANGED <<location_queue, queue_maxlen, target_speed, target_location, config,
                   ctor_opt_dict, speed_given, appended, removed>>

\* The driver calls the planner's methods; they do not touch the agent
Next ==
    \/ \E speed \in SetSpeeds : set_speed(speed) /\ UNCHANGED agent_target_speed
    \/ \E current_plan \in Plans, clean_queue \in BOOLEAN :
          set_plan(current_plan, clean_queue) /\ UNCHANGED agent_target_speed
    \/ \E location \in Locs, kmh \in SpeedsKmh :
          run_step(location, kmh) /\ UNCHANGED agent_target_speed
    \/ done /\ UNCHANGED agent_target_speed

Spec == Init /\ [][Next]_vars

----
\* WalkerAgent (PythonAPI/carla/agents/navigation/walker_agent.py)

\* WalkerAgent(walker, target_speed, opt_dict) arguments
AgentSpeeds == {One, 200}

\* Plans given to the agent
AgentPlans == ShortPlans

\* set_target_speed() arguments
AgentSetSpeeds == {0, 200}

AgentInit ==
    \E location \in Locs, speed \in AgentSpeeds, opt_dict \in OptDicts :
        /\ agent_target_speed = speed
        /\ Constructed(location, opt_dict)

agent_set_target_speed(speed) ==
    /\ agent_target_speed' = speed
    /\ set_speed(speed)

\* Mutant of AgentCleanQueueDefault: the agent appends by default
AgentCleanQueueDefault_False == FALSE

\* The default of WalkerAgent.set_plan's clean_queue
AgentCleanQueueDefault == TRUE

\* The default of WalkerLocalPlanner.set_plan's clean_queue
CleanQueueDefault == TRUE

agent_set_plan(plan, clean_queue) ==
    /\ set_plan(plan, clean_queue)
    /\ UNCHANGED agent_target_speed

\* set_plan(plan), clean_queue left out
agent_set_plan_default(plan) == agent_set_plan(plan, AgentCleanQueueDefault)

agent_run_step(location, kmh) ==
    /\ run_step(location, kmh)
    /\ UNCHANGED agent_target_speed

agent_done ==
    /\ done
    /\ UNCHANGED agent_target_speed

AgentNext ==
    \/ \E speed \in AgentSetSpeeds : agent_set_target_speed(speed)
    \/ \E plan \in AgentPlans, clean_queue \in BOOLEAN : agent_set_plan(plan, clean_queue)
    \/ \E plan \in AgentPlans : agent_set_plan_default(plan)
    \/ \E location \in Locs, kmh \in SpeedsKmh : agent_run_step(location, kmh)
    \/ agent_done

SpecAgent == AgentInit /\ [][AgentNext]_vars

----
\* A driver that sets one plan and then steps the planner once per tick, and a
\* host that moves the walker as the last command says

Cross(a, b) == <<a[2] * b[3] - a[3] * b[2],
                a[3] * b[1] - a[1] * b[3],
                a[1] * b[2] - a[2] * b[1]>>

\* The places a positive step from from towards to can end in, to at the farthest
OnTheWay(from, to) ==
    {l \in HostLocs :
        LET step == Sub(Coord[l], Coord[from])
            whole == Sub(Coord[to], Coord[from])
        IN  /\ Cross(step, whole) = <<0, 0, 0>>
            /\ Dot(step, whole) > 0
            /\ Dot(step, step) <= Dot(whole, whole)}

\* Where the walker is at the next tick
HostMoves ==
    IF op # "run_step" THEN HostLocs
    ELSE IF location_queue = <<>> THEN {walker_location}
    ELSE OnTheWay(walker_location, target_location)

\* Default options: target speed 1.0, base_min_distance 1.0, distance_ratio 0.5
CoopInit ==
    \E location \in Locs :
        /\ Constructed(location, [x \in {} |-> 0])
        /\ agent_target_speed = "none"

coop_set_plan(current_plan, clean_queue) ==
    /\ op = "init"
    /\ set_plan(current_plan, clean_queue)
    /\ UNCHANGED agent_target_speed

coop_run_step(location, kmh) ==
    /\ op # "init"
    /\ location \in HostMoves
    /\ run_step(location, kmh)
    /\ UNCHANGED agent_target_speed

CoopTick == \E location \in HostLocs, kmh \in SpeedsKmh : coop_run_step(location, kmh)

CoopNext ==
    \/ \E current_plan \in Plans, clean_queue \in BOOLEAN :
          coop_set_plan(current_plan, clean_queue)
    \/ CoopTick

\* The driver sets its plan and keeps ticking
SpecCoop == CoopInit /\ [][CoopNext]_vars /\ WF_vars(CoopNext)

----
\* Properties

RECURSIVE Flatten(_)
Flatten(segments) ==
    IF segments = <<>> THEN <<>> ELSE Head(segments) \o Flatten(Tail(segments))

LastSegment == appended[Len(appended)]

\* |a - b|^2
Dist2(a, b) == Dot(Sub(Coord[a], Coord[b]), Sub(Coord[a], Coord[b]))

\* The actor's location that a returned direction was computed from
ActorAt(location) ==
    control.direction.num = Sub(Coord[location_queue[1]], Coord[location])

\* C1: after set_plan(P, clean_queue=True) the queue is exactly P, whatever the
\* queue and its capacity were, also when P is longer than the capacity.
C1_CleanPlanReplacesQueue ==
    [][\A P \in Plans : set_plan(P, TRUE) => location_queue' = P]_vars

C1_Witness ==
    /\ op = "set_plan"
    /\ Len(appended) = 1
    /\ Len(LastSegment) > DequeMaxLen
    /\ location_queue = LastSegment
    /\ queue_maxlen = Len(LastSegment)

\* C2: after set_plan(P, clean_queue=False) the queue is the old queue followed
\* by P, also when the two together are longer than the capacity.
C2_PlanIsAppended ==
    [][\A P \in Plans : set_plan(P, FALSE) => location_queue' = location_queue \o P]_vars

C2_Witness ==
    /\ op = "set_plan"
    /\ Len(appended) = 3
    /\ appended[2] # <<>>
    /\ Len(LastSegment) = DequeMaxLen
    /\ Len(location_queue) > DequeMaxLen
    /\ queue_maxlen = Len(location_queue)
    /\ location_queue = appended[2] \o appended[3]

\* C3: with an empty queue done() returns true, run_step returns speed 0 and
\* leaves the queue empty, and set_speed leaves it empty: only set_plan ends this.
C3_EmptyQueueStops ==
    [][location_queue = <<>> =>
        /\ done => done_ret'
        /\ \A location \in Locs, kmh \in SpeedsKmh :
              run_step(location, kmh) => control'.speed = 0 /\ location_queue' = <<>>
        /\ \A speed \in SetSpeeds : set_speed(speed) => location_queue' = <<>>]_vars

C3_Witness ==
    /\ op = "run_step"
    /\ appended = << <<>> >>
    /\ location_queue = <<>>
    /\ control.speed = 0
    /\ target_speed # 0

\* The radius the claim gives the location at position i of queue q
C4_Radius(q, i, kmh) ==
    IF i = Len(q) THEN One
    ELSE config.base_min_distance + (config.distance_ratio * WalkerSpeed(kmh)) \div One

C4_Within(q, i, location, kmh) ==
    /\ C4_Radius(q, i, kmh) > 0
    /\ Dist2(location, q[i]) < C4_Radius(q, i, kmh) * C4_Radius(q, i, kmh)

\* C4: run_step removes exactly the longest prefix of the queue whose locations
\* are all within their radius (1.0 for the last location of the queue, the
\* dynamic radius for the others), and nothing behind it.
C4_PrunesLongestPrefix ==
    [][\A location \in Locs, kmh \in SpeedsKmh :
          op' = "run_step" /\ run_step(location, kmh) =>
            LET k == Len(location_queue) - Len(location_queue') IN
            /\ k \in 0..Len(location_queue)
            /\ location_queue' = SubSeq(location_queue, k + 1, Len(location_queue))
            /\ removed' = removed \o SubSeq(location_queue, 1, k)
            /\ \A i \in 1..k : C4_Within(location_queue, i, location, kmh)
            /\ k < Len(location_queue) =>
                  ~C4_Within(location_queue, k + 1, location, kmh)]_vars

\* The front was pruned, the new front is out of reach, and the actor stands on
\* the location behind it
C4_Witness ==
    /\ op = "run_step"
    /\ config.base_min_distance = One
    /\ removed # <<>>
    /\ Len(location_queue) >= 2
    /\ ActorAt(location_queue[2])
    /\ location_queue[1] # location_queue[2]

\* C5: a queue of one location loses it in run_step iff the actor is closer
\* than 1.0 to it, whatever the dynamic radius is.
C5_LastLocationRadius ==
    [][Len(location_queue) = 1 =>
        \A location \in Locs, kmh \in SpeedsKmh :
            run_step(location, kmh) =>
                IF Dist2(location, location_queue[1]) < One * One
                THEN location_queue' = <<>>
                ELSE location_queue' = location_queue]_vars

\* The dynamic radius is 0 and the last location was pruned all the same
C5_Witness ==
    /\ op = "run_step"
    /\ config.base_min_distance = 0
    /\ config.distance_ratio = 0
    /\ location_queue = <<>>
    /\ removed # <<>>

\* C6: the locations removed so far followed by the queue are the seed
\* followed by the appended plans, in call order.
C6_Fifo == removed \o location_queue = Flatten(appended)

C6_Witness ==
    /\ op = "run_step"
    /\ Len(appended) = 3
    /\ appended[2] # <<>>
    /\ appended[3] # <<>>
    /\ Len(removed) > Len(appended[1])
    /\ location_queue # <<>>

\* C7: run_step never makes the queue longer, and only set_plan does.
C7_PruningIsMonotonic ==
    [][/\ \A location \in Locs, kmh \in SpeedsKmh :
              op' = "run_step" /\ run_step(location, kmh) => Len(location_queue') <= Len(location_queue)
       /\ Len(location_queue') > Len(location_queue) =>
              \E P \in Plans, clean_queue \in BOOLEAN : set_plan(P, clean_queue)]_vars

C7_Witness ==
    /\ op = "run_step"
    /\ removed # <<>>
    /\ location_queue # <<>>

\* C8: when run_step leaves the queue non-empty, target_location is the new
\* front, the speed is the target speed and the direction is the vector from
\* the actor to the front divided by its length.
C8_CommandTowardsFront ==
    [][\A location \in Locs, kmh \in SpeedsKmh :
          op' = "run_step" /\ location_queue' # <<>> /\ run_step(location, kmh) =>
            /\ target_location' = location_queue'[1]
            /\ control'.speed = target_speed
            /\ control'.direction.num = Sub(Coord[location_queue'[1]], Coord[location])
            /\ control'.direction.den2 = Dist2(location_queue'[1], location)]_vars

\* Queue [A, C, B], actor on A, dynamic radius 1.0: A is pruned, the target is C
C8_Witness ==
    /\ op = "run_step"
    /\ config.base_min_distance = One
    /\ appended = << <<"A">>, <<"C">>, <<"B">> >>
    /\ removed = <<"A">>
    /\ location_queue = <<"C", "B">>
    /\ target_location = "C"
    /\ ActorAt("A")
    /\ control.speed = target_speed

\* The vector num / sqrt(den2) has length 1
IsUnit(direction) ==
    direction.den2 > 0 /\ Dot(direction.num, direction.num) = direction.den2

\* C9: the direction run_step returns with a non-empty queue has length 1.
C9_UnitDirection ==
    op = "run_step" /\ location_queue # <<>> => IsUnit(control.direction)

\* C10: after set_plan with an empty plan done() would return true.
C10_EmptyPlanIsDone ==
    op = "set_plan" /\ LastSegment = <<>> => Done(location_queue)

\* C10 as amended: after set_plan with an empty plan done() would return true
\* iff clean_queue was true or the queue was empty before the call.
C10_EmptyPlanDoneIffCleared ==
    [][\A clean_queue \in BOOLEAN :
          set_plan(<<>>, clean_queue) =>
            (Done(location_queue') <=> (clean_queue \/ Done(location_queue)))]_vars

C10_Witness ==
    /\ op = "set_plan"
    /\ appended = << <<>> >>
    /\ queue_maxlen > DequeMaxLen
    /\ Done(location_queue)

\* C11: the queue is never longer than its capacity; the capacity starts at 100,
\* never decreases, becomes the combined length when a set_plan would exceed it
\* and is otherwise left alone; set_plan drops nothing.
C11_CapacityOnlyGrows ==
    /\ [](/\ Len(location_queue) <= queue_maxlen
          /\ op = "init" => queue_maxlen = DequeMaxLen)
    /\ [][/\ queue_maxlen' >= queue_maxlen
          /\ op' # "set_plan" => queue_maxlen' = queue_maxlen
          /\ \A P \in Plans, clean_queue \in BOOLEAN :
                op' = "set_plan" /\ set_plan(P, clean_queue) =>
                    LET combined == Len(P) + IF clean_queue THEN 0
                                               ELSE Len(location_queue)
                    IN  /\ queue_maxlen' = IF combined > queue_maxlen THEN combined
                                           ELSE queue_maxlen
                        /\ Len(location_queue') = combined]_vars

\* The capacity was raised and stayed raised while the queue was drained
C11_Witness ==
    /\ op = "run_step"
    /\ queue_maxlen = DequeMaxLen + 1
    /\ Len(location_queue) < DequeMaxLen
    /\ removed # <<>>

\* C12: right after construction the queue holds exactly the actor's location,
\* target_location is that location and done() would be false.
C12_SeededAtConstruction ==
    op = "init" =>
        /\ location_queue = <<walker_location>>
        /\ target_location = walker_location
        /\ ~Done(location_queue)

C12_Witness ==
    /\ op = "init"
    /\ walker_location = "C"
    /\ "base_min_distance" \in DOMAIN ctor_opt_dict
    /\ location_queue = <<"C">>

\* C13: a run_step that returns a command to move returns the speed last given
\* by set_speed, or by the configuration if set_speed was never called.
C13_SpeedTakesEffect ==
    op = "run_step" /\ location_queue # <<>> => control.speed = speed_given

\* set_speed(0) after a construction with target_speed 2.0, then a command
C13_Witness ==
    /\ op = "run_step"
    /\ location_queue # <<>>
    /\ "target_speed" \in DOMAIN ctor_opt_dict
    /\ speed_given = 0
    /\ control.speed = 0
    /\ removed # <<>>

Recognized(opt_dict) ==
    [key \in DOMAIN opt_dict \cap RecognizedKeys |-> opt_dict[key]]

\* C15: a planner constructed with unrecognized keys in opt_dict is the planner
\* constructed without them.
C15_UnknownKeysIgnored ==
    op = "init" =>
        LET p == Construct(walker_location, Recognized(ctor_opt_dict)) IN
        /\ location_queue = p.location_queue
        /\ queue_maxlen = p.queue_maxlen
        /\ target_speed = p.target_speed
        /\ target_location = p.target_location
        /\ config = p.config

C15_Witness ==
    /\ op = "init"
    /\ DOMAIN ctor_opt_dict \ RecognizedKeys # {}
    /\ config.base_min_distance = 0
    /\ target_speed = 200

\* C16: the speed of every command to move that the agent's run_step returns
\* is the target speed the agent holds.
C16_AgentSpeedIsCommandSpeed ==
    op = "run_step" /\ location_queue # <<>> => control.speed = agent_target_speed

\* C17: the first run_step after construction, with the actor closer than 1.0
\* to where it was constructed, empties the queue and returns speed 0; the
\* queue then stays empty until a set_plan.
C17_FreshPlannerFinishes ==
    [][/\ op = "init" =>
              \A location \in Locs, kmh \in SpeedsKmh :
                  /\ op' = "run_step"
                  /\ run_step(location, kmh)
                  /\ Dist2(location, walker_location) < One * One
                  => /\ location_queue' = <<>>
                     /\ removed' = <<walker_location>>
                     /\ control'.speed = 0
                     /\ Done(location_queue')
       /\ Done(location_queue) /\ op' # "set_plan" => Done(location_queue')]_vars

\* No plan was set, the seed is gone and the command is to stop
C17_Witness ==
    /\ op = "run_step"
    /\ appended = << <<"A">> >>
    /\ removed = <<"A">>
    /\ walker_location = "B"
    /\ location_queue = <<>>
    /\ control.speed = 0
    /\ target_speed # 0

C19_Frames ==
    [][/\ op' = "set_speed" =>
              UNCHANGED <<location_queue, queue_maxlen, target_location, config>>
       /\ op' = "set_plan" => UNCHANGED <<target_speed, target_location, config>>
       /\ op' = "done" =>
              UNCHANGED <<location_queue, queue_maxlen, target_speed, target_location,
                          config>>
       /\ op' = "run_step" =>
              /\ UNCHANGED <<target_speed, queue_maxlen, config>>
              /\ location_queue' = <<>> => target_location' = target_location]_vars

\* The queue was emptied and target_location still names a location that is
\* behind the walker
C19_Witness ==
    /\ op = "run_step"
    /\ location_queue = <<>>
    /\ Len(removed) >= 2
    /\ target_location = removed[Len(removed)]
    /\ Len(appended) >= 2

====
